---- MODULE Spec2Model ----
(***************************************************************************)
(* The device setup wizard of bootstrap/: wizard.py, the three screens and *)
(* the utils (nmcli_utils, api_utils, state_utils).                        *)
(*                                                                         *)
(* Representation of text.  A text (stdout, stderr) is the sequence of its *)
(* lines, as str.splitlines() yields them; a line is the sequence of its   *)
(* ':'-separated fields, as line.split(":") yields them (never empty: the  *)
(* blank line is <<"">>).  A field is an atom (a TLA+ string).             *)
(***************************************************************************)
EXTENDS Integers, Sequences, FiniteSets, TLC

VARIABLES
  app,            \* "running" | "exited" | "crashed" (an exception left a handler)
  exception,      \* the exception that crashed the app, or "none"
  screen_stack,   \* App's screen stack: records [name, result, queue, running, status]
  networks,       \* NetworkScreen.networks
  selected_ssid,  \* NetworkScreen.selected_ssid (None = "None" record)
  network_result, \* the dictionary last handed to after_network
  state_file,     \* the file at STATE_PATH
  connect_cmd,    \* the command line of the last connect_network call
  checks,         \* the last check_key_status call, if any: <<[key, ok, msg, passed]>>
  call,           \* a utility called on its own: [fn, arg, done, result, before]
  exit_result,    \* what app.exit() was given
  presses         \* number of user events so far (bounded by MaxPresses)

vars == <<app, exception, screen_stack, networks, selected_ssid, network_result,
          state_file, connect_cmd, checks, call, exit_result, presses>>

---------------------------------------------------------------------------
(* Bounds of the model *)

\* lines of a scan output
MaxLines == 2
\* messages waiting in one screen's queue
MaxPending == 1
\* user events in one run
MaxPresses == 3

---------------------------------------------------------------------------
(* Python values *)

None == [t |-> "None"]
PyStr(s) == [t |-> "str", v |-> s]
PyBool(b) == [t |-> "bool", v |-> b]

\* What a call does: return a value, or raise.
Return(v) == [raised |-> FALSE, value |-> v]
Raise(e) == [raised |-> TRUE, exc |-> e]

\* A one-line, colon-free string as a text; "" has no lines.
Str(s) == IF s = "" THEN <<>> ELSE << <<s>> >>

Take(s, n) == SubSeq(s, 1, IF Len(s) < n THEN Len(s) ELSE n)

---------------------------------------------------------------------------
(* nmcli_utils.py *)

\* str.strip() on a text: leading and trailing blank lines go.
IsBlank(line) == line = <<"">>

RECURSIVE lstrip(_)
lstrip(text) ==
  IF text # <<>> /\ IsBlank(Head(text)) THEN lstrip(Tail(text)) ELSE text

RECURSIVE rstrip(_)
rstrip(text) ==
  IF text # <<>> /\ IsBlank(text[Len(text)])
  THEN rstrip(SubSeq(text, 1, Len(text) - 1)) ELSE text

strip(text) == rstrip(lstrip(text))

\* A process as the operating system runs it: how long it takes and what it
\* leaves behind.
Process(duration, returncode, stdout, stderr) ==
  [duration |-> duration, returncode |-> returncode,
   stdout |-> stdout, stderr |-> stderr]

\* communicate() awaited without wait_for: the timeout is not kept.
_run_NoTimeout(cmd, timeout, proc) ==
  [cmd |-> cmd, timeout |-> timeout, duration |-> proc.duration, killed |-> FALSE,
   rc |-> proc.returncode, out |-> strip(proc.stdout), err |-> strip(proc.stderr)]

\* _run(cmd, timeout): the tuple (rc, out, err) it returns, with the fate of
\* the process it created (killed on timeout, else exited).
_run(cmd, timeout, proc) ==
  IF proc.duration > timeout
  THEN [cmd |-> cmd, timeout |-> timeout, duration |-> proc.duration,
        killed |-> TRUE, rc |-> 1, out |-> <<>>, err |-> Str("Timeout")]
  ELSE [cmd |-> cmd, timeout |-> timeout, duration |-> proc.duration,
        killed |-> FALSE, rc |-> proc.returncode,
        out |-> strip(proc.stdout), err |-> strip(proc.stderr)]

\* int(s) on the strings of this model; anything else raises ValueError.
IntLiterals == {"0", "40", "70"}
int(s) == CASE s = "0" -> 0 [] s = "40" -> 40 [] s = "70" -> 70

\* The loop of scan_networks over out.splitlines(): the list built so far,
\* or the ValueError of int(sig).
RECURSIVE scan_loop(_, _)
scan_loop(lines, nets) ==
  IF lines = <<>> THEN Return(nets)
  ELSE LET parts == Take(Head(lines) \o <<"0">>, 2)
           ssid == parts[1]
           sig == parts[2]
       IN IF ssid # ""
          THEN IF sig \in IntLiterals
               THEN scan_loop(Tail(lines),
                              Append(nets, [ssid |-> ssid, signal |-> int(sig)]))
               ELSE Raise("ValueError")
          ELSE scan_loop(Tail(lines), nets)

ScanCmd == <<"nmcli", "-t", "-f", "SSID,SIGNAL", "device", "wifi", "list">>

scan_networks(proc) ==
  LET r == _run(ScanCmd, 10, proc)
  IN [call |-> scan_loop(r.out, <<>>), runs |-> <<r>>]

ConnectCmd(ssid, password) ==
  <<"sudo", "nmcli", "device", "wifi", "connect", ssid>>
    \o (IF password # "" THEN <<"password", password>> ELSE <<>>)

connect_network(ssid, password, proc) ==
  LET r == _run(ConnectCmd(ssid, password), 30, proc)
      ok == r.rc = 0
  IN [ok |-> ok, msg |-> IF ok THEN r.out ELSE r.err, runs |-> <<r>>]

\* "full" in text.lower(), on the fields of this model.
FullWords == {"full", "FULL", "journal is full"}
ContainsFull(text) ==
  \E i \in 1..Len(text) : \E j \in 1..Len(text[i]) : text[i][j] \in FullWords

ConnectivityCmd == <<"nmcli", "-t", "-f", "CONNECTIVITY", "general">>

\* rc, _, _ = await _run(...): the second binding of _ wins, so the text
\* searched for "full" is the third element of the tuple.
get_connectivity(proc) ==
  LET r == _run(ConnectivityCmd, 10, proc)
  IN [value |-> IF r.rc = 0 THEN ContainsFull(r.err) ELSE FALSE, runs |-> <<r>>]

\* out.split(): the whitespace-separated words of a colon-free text whose
\* fields hold no blank (a line break separates words as a blank does).
RECURSIVE split(_)
split(text) ==
  IF text = <<>> THEN <<>>
  ELSE SelectSeq(Head(text), LAMBDA w : w # "") \o split(Tail(text))

startswith127(ip) == ip \in {"127.0.0.1"}
\* ipaddress.ip_address(ip): raises ValueError unless ip is an address.
IsAddress(ip) == ip \in {"127.0.0.1", "192.168.1.5", "8.8.8.8"}
is_private(ip) == ip \in {"127.0.0.1", "192.168.1.5"}

RECURSIVE first_private(_)
first_private(ips) ==
  IF ips = <<>> THEN None
  ELSE IF IsAddress(Head(ips)) /\ is_private(Head(ips)) THEN PyStr(Head(ips))
  ELSE first_private(Tail(ips))

HostnameCmd == <<"hostname", "-I">>

get_ip_address(proc) ==
  LET r == _run(HostnameCmd, 10, proc)
      ips == SelectSeq(split(r.out), LAMBDA i : ~startswith127(i))
      found == first_private(ips)
  IN [value |-> IF found # None THEN found
                ELSE IF ips # <<>> THEN PyStr(ips[1]) ELSE None,
      runs |-> <<r>>]

---------------------------------------------------------------------------
(* Python values of the state file, and json *)

\* A dict is the sequence of its items [k, v] in insertion order, the keys
\* pairwise distinct; a key is a str or an int.
PyInt(n) == [t |-> "int", v |-> n]
PyList(s) == [t |-> "list", v |-> s]
PyTuple(s) == [t |-> "tuple", v |-> s]
PyDict(items) == [t |-> "dict", v |-> items]
Item(k, v) == [k |-> k, v |-> v]
EmptyDict == PyDict(<<>>)

IsDict(x) == x.t = "dict"

Items(d) == {d.v[i] : i \in 1..Len(d.v)}
Keys(d) == {it.k : it \in Items(d)}

\* d1 == d2 in Python: the same items, in any order.
PyEq(x, y) ==
  IF x.t = "dict" /\ y.t = "dict" THEN Items(x) = Items(y) ELSE x = y

\* d.get(k)
get(d, k) ==
  IF k \in Keys(d) THEN (CHOOSE it \in Items(d) : it.k = k).v ELSE None

\* d[k] = v: an existing key keeps its place.
setitem(d, k, v) ==
  IF k \in Keys(d)
  THEN PyDict([i \in 1..Len(d.v) |-> IF d.v[i].k = k THEN Item(k, v) ELSE d.v[i]])
  ELSE PyDict(Append(d.v, Item(k, v)))

\* bool(x)
Truthy(x) ==
  CASE x.t = "None" -> FALSE
    [] x.t = "bool" -> x.v
    [] x.t = "str" -> x.v # ""
    [] x.t = "int" -> x.v # 0
    [] x.t \in {"list", "tuple", "dict"} -> x.v # <<>>

\* str(n) of an int key, as json.dumps writes it.
IntToStr(n) == CASE n = 0 -> "0" [] n = 1 -> "1" [] n = 2 -> "2"

\* json.dumps(x): a JSON document.  It is written with the same tags; its
\* objects hold str keys only (maybe twice the same), and it has no tuple.
dumps_key(k) == IF k.t = "int" THEN PyStr(IntToStr(k.v)) ELSE k

dumps_value(x) == IF x.t = "tuple" THEN PyList(x.v) ELSE x

dumps(x) ==
  IF x.t = "dict"
  THEN PyDict([i \in 1..Len(x.v) |->
                 Item(dumps_key(x.v[i].k), dumps_value(x.v[i].v))])
  ELSE dumps_value(x)

\* json.loads(doc): of an object's repeated key the last value stays, at the
\* place of the first.
RECURSIVE loads_items(_, _)
loads_items(items, d) ==
  IF items = <<>> THEN d
  ELSE loads_items(Tail(items), setitem(d, Head(items).k, Head(items).v))

loads(doc) ==
  IF doc.t = "dict" THEN loads_items(doc.v, EmptyDict) ELSE doc

---------------------------------------------------------------------------
(* state_utils.py *)

\* The file at STATE_PATH: absent, or its text: a JSON document or not.
Missing == [exists |-> FALSE]
Garbage == [exists |-> TRUE, json |-> FALSE]
JsonFile(doc) == [exists |-> TRUE, json |-> TRUE, doc |-> doc]

\* The test of exists() turned round: nothing is ever read.
load_state_Inverted(file) == EmptyDict

load_state(file) ==
  IF file.exists
  THEN IF file.json THEN loads(file.doc) ELSE EmptyDict
  ELSE EmptyDict

\* The file after save_state(state).
save_state(state) == JsonFile(dumps(state))

---------------------------------------------------------------------------
(* api_utils.py *)

\* generate_activation_code(): six random digits.
ActivationCodes == {"000000", "123456"}

\* What the GET does: an exception of aiohttp (raised by the request, or by
\* r.json() on a body that is no JSON), or a response.
HttpError(e) == [kind |-> "error", exc |-> e]
HttpResponse(status, body) == [kind |-> "response", status |-> status, body |-> body]

\* The body of a 200 is not looked at.
check_key_status_Any200(api_key, http) ==
  IF http.kind = "response" /\ http.status = 200
  THEN [ok |-> TRUE, msg |-> "API key active"]
  ELSE [ok |-> FALSE, msg |-> "Invalid API key."]

check_key_status(api_key, http) ==
  IF http.kind = "error"
  THEN [ok |-> FALSE, msg |-> "Network error"]
  ELSE IF http.status = 200
       THEN IF ~http.body.json
            THEN [ok |-> FALSE, msg |-> "Network error"]      \* r.json() raised
            ELSE LET data == loads(http.body.doc)
                 IN IF ~IsDict(data)
                    THEN [ok |-> FALSE, msg |-> "Network error"]  \* no .get
                    ELSE IF Truthy(get(data, PyStr("active")))
                         THEN [ok |-> TRUE, msg |-> "API key active"]
                         ELSE [ok |-> FALSE, msg |-> "Key found but not activated."]
       ELSE [ok |-> FALSE, msg |-> "Invalid API key."]

---------------------------------------------------------------------------
(* What the outside world can do *)

ScanLines ==
  { <<"a", "70">>, <<"B", "70">>, <<"a", "40">>, <<"B", "x">>,
    <<"c">>, <<"", "40">>, <<"c", "d", "70">>, <<"">> }

ScanTexts == UNION { [1..n -> ScanLines] : n \in 0..MaxLines }

ErrTexts == { <<>>, Str("Error"), Str("journal is full") }

ReturnCodes == {0, 10}

\* Shorter than every timeout, between the two timeouts (10 and 30), longer
\* than both.
Durations == {1, 20, 60}

Procs(outs) ==
  { Process(d, rc, out, err) :
      d \in Durations, rc \in ReturnCodes, out \in outs, err \in ErrTexts }

ScanProcs == Procs(ScanTexts)
ConnectProcs == Procs({ <<>>, Str("Device activated") })
ConnectivityProcs == Procs({ Str("full"), Str("limited"), Str("none") })
HostnameProcs ==
  Procs({ <<>>, << <<"127.0.0.1", "8.8.8.8", "192.168.1.5">> >>,
          << <<"bogus", "8.8.8.8">> >> })

\* What the wizard's calls can come to, over all the processes above.
\* (The wizard is run on the scan outputs made of WizardLines.)
WizardLines == { <<"a", "70">>, <<"B", "x">>, <<"c">> }
WizardTexts == UNION { [1..n -> WizardLines] : n \in 0..MaxLines }
ScanResults == { scan_networks(proc).call : proc \in Procs(WizardTexts) }
ConnectResults ==
  { [ok |-> c.ok, msg |-> c.msg] :
      c \in { connect_network("a", "", proc) : proc \in ConnectProcs } }
ConnectivityResults == { get_connectivity(proc).value : proc \in ConnectivityProcs }
IpResults == { get_ip_address(proc).value : proc \in HostnameProcs }

Passwords == {"", "secret"}

\* What the user may have typed into key_input, and value.strip() of it.
KeyInputs == {"", " ", "K1", " K2 "}
str_strip(s) == CASE s = " " -> "" [] s = " K2 " -> "K2" [] OTHER -> s

JsonBody(doc) == [json |-> TRUE, doc |-> doc]
NoJsonBody == [json |-> FALSE]
Active(v) == PyDict(<<Item(PyStr("active"), v)>>)

HttpOutcomes ==
  { HttpError("ClientConnectorError"), HttpError("TimeoutError") }
    \cup { HttpResponse(st, b) :
            st \in {200, 404},
            b \in { NoJsonBody, JsonBody(Active(PyBool(TRUE))),
                    JsonBody(Active(PyBool(FALSE))), JsonBody(Active(None)),
                    JsonBody(EmptyDict), JsonBody(PyList(<<>>)) } }

CheckResults(key) == { check_key_status(key, http) : http \in HttpOutcomes }

\* The state file as the wizard may find it.
InitFiles ==
  { Garbage, JsonFile(PyList(<<>>)),
    JsonFile(PyDict(<<Item(PyStr("api_key"), PyStr("K0"))>>)),
    JsonFile(PyDict(<<Item(PyStr("activation_code"), PyStr("123456")),
                      Item(PyStr("api_key"), PyStr(""))>>)) }

---------------------------------------------------------------------------
(* The screens and the message pumps *)

Msg(m, index) == [msg |-> m, index |-> index]
Idle == [msg |-> "idle", arg |-> None]
Running(m, arg) == [msg |-> m, arg |-> arg]

\* SummaryScreen.compose: the label.
summary_label(result) ==
  IF Truthy(get(result, PyStr("error"))) THEN "error"
  ELSE IF Truthy(get(result, PyStr("activated"))) THEN "Device activated and ready!"
  ELSE IF Truthy(get(result, PyStr("connected"))) THEN "Connected to network."
  ELSE "Setup incomplete."

\* A screen as push_screen installs it: the Mount event is its first message.
NetworkScreen ==
  [name |-> "Network", result |-> None, queue |-> <<Msg("mount", 0)>>,
   running |-> Idle, status |-> ""]
ActivationScreen ==
  [name |-> "Activation", result |-> None, queue |-> <<Msg("mount", 0)>>,
   running |-> Idle, status |-> "Checking device key"]
SummaryScreen(result) ==
  [name |-> "Summary", result |-> result, queue |-> <<>>,
   running |-> Idle, status |-> summary_label(result)]

Top == Len(screen_stack)

\* The test of connected left out.
after_network_NoGate(result) == ActivationScreen

\* BootstrapWizard.after_network: the screen it pushes.
after_network(result) ==
  IF ~Truthy(get(result, PyStr("connected")))
  THEN SummaryScreen(PyDict(<<Item(PyStr("error"), PyStr("Network not connected"))>>))
  ELSE ActivationScreen

\* BootstrapWizard.after_activation: the screen it pushes.
after_activation(result) == SummaryScreen(result)

\* Screen i takes the next message of its queue: an idle pump with a
\* message waiting.
Ready(i, m, name) ==
  /\ app = "running"
  /\ i \in 1..Top
  /\ screen_stack[i].name = name
  /\ screen_stack[i].running = Idle
  /\ screen_stack[i].queue # <<>>
  /\ Head(screen_stack[i].queue).msg \in m

\* Screen i is suspended in the handler of m.
Awaiting(i, m, name) ==
  /\ app = "running"
  /\ i \in 1..Top
  /\ screen_stack[i].name = name
  /\ screen_stack[i].running.msg \in m

\* The handler starts and reaches its first await.
Suspend(i, arg, status) ==
  [screen_stack EXCEPT ![i].queue = Tail(@),
                       ![i].running = Running(Head(screen_stack[i].queue).msg, arg),
                       ![i].status = status]

\* A handler that does not await runs to its end.
Handled(i, status) ==
  [screen_stack EXCEPT ![i].queue = Tail(@), ![i].status = status]

\* The suspended handler ends.
Resumed(i, status) ==
  [screen_stack EXCEPT ![i].running = Idle, ![i].status = status]

\* An exception leaves the handler: the app stops with it.
Crash(e) ==
  /\ app' = "crashed"
  /\ exception' = e

\* No utility has been called on its own.
NoCall == [fn |-> "none", done |-> FALSE]

Init ==
  /\ app = "running"
  /\ exception = "none"
  /\ screen_stack = <<NetworkScreen>>
  /\ networks = <<>>
  /\ selected_ssid = None
  /\ network_result = None
  /\ state_file \in InitFiles
  /\ connect_cmd = <<>>
  /\ call = NoCall
  /\ checks = <<>>
  /\ exit_result = None
  /\ presses = 0

---------------------------------------------------------------------------
(* The user *)

\* The user acts on the screen on top of the stack.  What they press while
\* its pump is suspended in a handler waits in its queue; an idle pump takes
\* a message at once, so nothing queues up behind it.
CanPress(name) ==
  /\ app = "running"
  /\ presses < MaxPresses
  /\ screen_stack[Top].name = name
  /\ screen_stack[Top].running # Idle \/ screen_stack[Top].queue = <<>>
  /\ Len(screen_stack[Top].queue) < MaxPending

Post(m) ==
  /\ screen_stack' = [screen_stack EXCEPT ![Top].queue = Append(@, m)]
  /\ presses' = presses + 1
  /\ UNCHANGED <<app, exception, networks, selected_ssid, network_result,
                 state_file, connect_cmd, checks, call, exit_result>>

PressRefresh == CanPress("Network") /\ Post(Msg("refresh", 0))
PressConnect == CanPress("Network") /\ Post(Msg("connect", 0))
PressNetworkDone == CanPress("Network") /\ Post(Msg("done", 0))
\* ListView.Selected carries the index of the item chosen in the list shown.
SelectItem ==
  /\ CanPress("Network")
  /\ \E index \in 1..Len(networks) : Post(Msg("select", index))
PressValidate == CanPress("Activation") /\ Post(Msg("validate", 0))
PressActivationDone == CanPress("Activation") /\ Post(Msg("done", 0))
PressFinish == CanPress("Summary") /\ Post(Msg("finish", 0))

---------------------------------------------------------------------------
(* NetworkScreen *)

\* on_mount and handle_refresh: refresh_networks up to await scan_networks().
RefreshBegin(i) ==
  /\ Ready(i, {"mount", "refresh"}, "Network")
  /\ screen_stack' = Suspend(i, None, "Scanning")
  /\ UNCHANGED <<app, exception, networks, selected_ssid, network_result,
                 state_file, connect_cmd, checks, call, exit_result, presses>>

\* refresh_networks from the scan's result on.
RefreshEnd(i) ==
  /\ Awaiting(i, {"mount", "refresh"}, "Network")
  /\ \E scan \in ScanResults :
       IF scan.raised
          THEN /\ Crash(scan.exc)
               /\ UNCHANGED <<screen_stack, networks>>
          ELSE /\ networks' = scan.value
               /\ screen_stack' = Resumed(i, "Found network(s)")
               /\ UNCHANGED <<app, exception>>
  /\ UNCHANGED <<selected_ssid, network_result, state_file, connect_cmd, checks,
                 call, exit_result, presses>>

\* handle_select: self.networks[event.index]
HandleSelect(i) ==
  /\ Ready(i, {"select"}, "Network")
  /\ LET index == Head(screen_stack[i].queue).index
     IN IF index \in 1..Len(networks)
        THEN /\ selected_ssid' = PyStr(networks[index].ssid)
             /\ screen_stack' = Handled(i, screen_stack[i].status)
             /\ UNCHANGED <<app, exception>>
        ELSE /\ Crash("IndexError")
             /\ UNCHANGED <<screen_stack, selected_ssid>>
  /\ UNCHANGED <<networks, network_result, state_file, connect_cmd, checks, call,
                 exit_result, presses>>

\* handle_connect with nothing selected.
ConnectNothing(i) ==
  /\ Ready(i, {"connect"}, "Network")
  /\ ~Truthy(selected_ssid)
  /\ screen_stack' = Handled(i, "Select a network first.")
  /\ UNCHANGED <<app, exception, networks, selected_ssid, network_result,
                 state_file, connect_cmd, checks, call, exit_result, presses>>

\* handle_connect up to await connect_network(selected_ssid, password.value)
ConnectBegin(i) ==
  /\ Ready(i, {"connect"}, "Network")
  /\ Truthy(selected_ssid)
  /\ \E password \in Passwords :
       screen_stack' = Suspend(i, PyStr(password), "Connecting")
  /\ UNCHANGED <<app, exception, networks, selected_ssid, network_result,
                 state_file, connect_cmd, checks, call, exit_result, presses>>

\* handle_connect from the result of connect_network on.
ConnectEnd(i) ==
  /\ Awaiting(i, {"connect"}, "Network")
  /\ \E c \in ConnectResults, ip \in IpResults :
       /\ connect_cmd' = ConnectCmd(selected_ssid.v, screen_stack[i].running.arg.v)
       /\ IF c.ok
          THEN screen_stack' = Resumed(i, "Connected!")
          ELSE screen_stack' = Resumed(i, "Failed")
  /\ UNCHANGED <<app, exception, networks, selected_ssid, network_result,
                 state_file, checks, call, exit_result, presses>>

\* handle_done up to await get_connectivity()
NetworkDoneBegin(i) ==
  /\ Ready(i, {"done"}, "Network")
  /\ screen_stack' = Suspend(i, None, screen_stack[i].status)
  /\ UNCHANGED <<app, exception, networks, selected_ssid, network_result,
                 state_file, connect_cmd, checks, call, exit_result, presses>>

\* handle_done from there on: on_done is BootstrapWizard.after_network.
NetworkDoneEnd(i) ==
  /\ Awaiting(i, {"done"}, "Network")
  /\ \E connected \in ConnectivityResults, ip \in IpResults :
       LET result == PyDict(<<Item(PyStr("connected"), PyBool(connected)),
                              Item(PyStr("ip"), ip)>>)
       IN /\ network_result' = result
          /\ screen_stack' =
               Append(Resumed(i, screen_stack[i].status), after_network(result))
  /\ UNCHANGED <<app, exception, networks, selected_ssid, state_file,
                 connect_cmd, checks, call, exit_result, presses>>

---------------------------------------------------------------------------
(* ActivationScreen *)

ApiKey == PyStr("api_key")

\* The keys check_key_status has answered success for, so far.
Passed == IF checks = <<>> THEN {} ELSE checks[1].passed

\* The record of a check_key_status(key) call that returned r.
Checked(key, r) ==
  <<[key |-> key, ok |-> r.ok, msg |-> r.msg,
     passed |-> IF r.ok THEN Passed \cup {key} ELSE Passed]>>

\* on_mount with no key in the state: a code is made and saved.  A state
\* that is no dict has no get(): AttributeError.
ActivationMount(i) ==
  /\ Ready(i, {"mount"}, "Activation")
  /\ LET state == load_state(state_file)
     IN IF ~IsDict(state)
        THEN /\ Crash("AttributeError")
             /\ UNCHANGED <<screen_stack, state_file>>
        ELSE /\ ~Truthy(get(state, ApiKey))
             /\ \E code \in ActivationCodes :
                  state_file' =
                    save_state(setitem(state, PyStr("activation_code"), PyStr(code)))
             /\ screen_stack' = Handled(i, "No API key found.")
             /\ UNCHANGED <<app, exception>>
  /\ UNCHANGED <<networks, selected_ssid, network_result, connect_cmd, checks, call,
                 exit_result, presses>>

\* on_mount with a key in the state, up to await check_key_status(key)
ActivationMountBegin(i) ==
  /\ Ready(i, {"mount"}, "Activation")
  /\ LET state == load_state(state_file)
     IN /\ IsDict(state)
        /\ Truthy(get(state, ApiKey))
        /\ screen_stack' = Suspend(i, get(state, ApiKey), screen_stack[i].status)
  /\ UNCHANGED <<app, exception, networks, selected_ssid, network_result,
                 state_file, connect_cmd, checks, call, exit_result, presses>>

\* on_mount from the answer on.
ActivationMountEnd(i) ==
  /\ Awaiting(i, {"mount"}, "Activation")
  /\ \E r \in CheckResults(screen_stack[i].running.arg) :
       /\ checks' = Checked(screen_stack[i].running.arg, r)
       /\ screen_stack' = Resumed(i, r.msg)
  /\ UNCHANGED <<app, exception, networks, selected_ssid, network_result,
                 state_file, connect_cmd, call, exit_result, presses>>

\* validate_key with nothing typed.
ValidateEmpty(i) ==
  /\ Ready(i, {"validate"}, "Activation")
  /\ \E input \in KeyInputs : str_strip(input) = ""
  /\ screen_stack' = Handled(i, "Please enter a key.")
  /\ UNCHANGED <<app, exception, networks, selected_ssid, network_result,
                 state_file, connect_cmd, checks, call, exit_result, presses>>

\* validate_key up to await check_key_status(key)
ValidateBegin(i) ==
  /\ Ready(i, {"validate"}, "Activation")
  /\ \E input \in KeyInputs :
       /\ str_strip(input) # ""
       /\ screen_stack' = Suspend(i, PyStr(str_strip(input)), screen_stack[i].status)
  /\ UNCHANGED <<app, exception, networks, selected_ssid, network_result,
                 state_file, connect_cmd, checks, call, exit_result, presses>>

\* validate_key saving the key whatever the check answered.
ValidateEnd_SaveAlways(i) ==
  /\ Awaiting(i, {"validate"}, "Activation")
  /\ \E r \in CheckResults(screen_stack[i].running.arg) :
       LET key == screen_stack[i].running.arg
           state == load_state(state_file)
       IN /\ checks' = Checked(key, r)
          /\ IF IsDict(state)
             THEN /\ state_file' = save_state(setitem(state, ApiKey, key))
                  /\ screen_stack' = Resumed(i, r.msg)
                  /\ UNCHANGED <<app, exception>>
             ELSE /\ Crash("TypeError")
                  /\ screen_stack' =
                       [screen_stack EXCEPT ![i].status = r.msg]
                  /\ UNCHANGED state_file
  /\ UNCHANGED <<networks, selected_ssid, network_result, connect_cmd,
                 call, exit_result, presses>>

\* validate_key from the answer on.  state["api_key"] = key on a state that
\* is no dict: TypeError.
ValidateEnd(i) ==
  /\ Awaiting(i, {"validate"}, "Activation")
  /\ \E r \in CheckResults(screen_stack[i].running.arg) :
       LET key == screen_stack[i].running.arg
           state == load_state(state_file)
       IN /\ checks' = Checked(key, r)
          /\ IF r.ok
             THEN IF IsDict(state)
                  THEN /\ state_file' = save_state(setitem(state, ApiKey, key))
                       /\ screen_stack' = Resumed(i, r.msg)
                       /\ UNCHANGED <<app, exception>>
                  ELSE /\ Crash("TypeError")
                       /\ screen_stack' =
                            [screen_stack EXCEPT ![i].status = r.msg]
                       /\ UNCHANGED state_file
             ELSE /\ screen_stack' = Resumed(i, r.msg)
                  /\ UNCHANGED <<app, exception, state_file>>
  /\ UNCHANGED <<networks, selected_ssid, network_result, connect_cmd,
                 call, exit_result, presses>>

\* done: on_done is BootstrapWizard.after_activation.
ActivationDone(i) ==
  /\ Ready(i, {"done"}, "Activation")
  /\ LET state == load_state(state_file)
     IN IF ~IsDict(state)
        THEN /\ Crash("AttributeError")
             /\ UNCHANGED screen_stack
        ELSE LET result ==
                   PyDict(<<Item(PyStr("activated"),
                                 PyBool(Truthy(get(state, ApiKey))))>>)
             IN /\ screen_stack' =
                     Append(Handled(i, screen_stack[i].status),
                            after_activation(result))
                /\ UNCHANGED <<app, exception>>
  /\ UNCHANGED <<networks, selected_ssid, network_result, state_file,
                 connect_cmd, checks, call, exit_result, presses>>

---------------------------------------------------------------------------
(* SummaryScreen *)

\* exit_wizard: self.app.exit(self.result)
ExitWizard(i) ==
  /\ Ready(i, {"finish"}, "Summary")
  /\ app' = "exited"
  /\ exit_result' = screen_stack[i].result
  /\ screen_stack' = Handled(i, screen_stack[i].status)
  /\ UNCHANGED <<exception, networks, selected_ssid, network_result,
                 state_file, connect_cmd, checks, call, presses>>

---------------------------------------------------------------------------

UserEvent ==
  \/ PressRefresh
  \/ PressConnect
  \/ PressNetworkDone
  \/ SelectItem
  \/ PressValidate
  \/ PressActivationDone
  \/ PressFinish

Next ==
  \/ UserEvent
  \/ \E i \in 1..Top : RefreshBegin(i)
  \/ \E i \in 1..Top : RefreshEnd(i)
  \/ \E i \in 1..Top : HandleSelect(i)
  \/ \E i \in 1..Top : ConnectNothing(i)
  \/ \E i \in 1..Top : ConnectBegin(i)
  \/ \E i \in 1..Top : ConnectEnd(i)
  \/ \E i \in 1..Top : NetworkDoneBegin(i)
  \/ \E i \in 1..Top : NetworkDoneEnd(i)
  \/ \E i \in 1..Top : ActivationMount(i)
  \/ \E i \in 1..Top : ActivationMountBegin(i)
  \/ \E i \in 1..Top : ActivationMountEnd(i)
  \/ \E i \in 1..Top : ValidateEmpty(i)
  \/ \E i \in 1..Top : ValidateBegin(i)
  \/ \E i \in 1..Top : ValidateEnd(i)
  \/ \E i \in 1..Top : ActivationDone(i)
  \/ \E i \in 1..Top : ExitWizard(i)

Spec == Init /\ [][Next]_vars

---------------------------------------------------------------------------
(* The utilities on their own: a call is drawn with its inputs, and made. *)

Call(fn, arg) ==
  [fn |-> fn, arg |-> arg, done |-> FALSE, result |-> None, before |-> <<>>]

\* The call made, with what it returned; `before` is the call it followed.
Made(c, result) == [c EXCEPT !.done = TRUE, !.result = result]
Earlier(c) == <<[fn |-> c.fn, arg |-> c.arg, result |-> c.result]>>

Timeouts == {10, 30}
Cmds == {ScanCmd, ConnectivityCmd, HostnameCmd, ConnectCmd("a", "secret")}
AllProcs == ConnectProcs \cup ConnectivityProcs \cup HostnameProcs

\* The mappings handed to save_state: at most MaxItems items.
MaxItems == 2
DictKeys == {PyStr("api_key"), PyStr("1"), PyInt(1)}
DictValues == {PyStr("K1"), PyList(<<"x">>), PyTuple(<<"x">>)}
Mappings ==
  { PyDict(items) :
      items \in { s \in UNION { [1..n -> {Item(k, v) : k \in DictKeys, v \in DictValues}]
                                 : n \in 0..MaxItems } :
                    \A i, j \in 1..Len(s) : i # j => s[i].k # s[j].k } }

UtilFiles ==
  InitFiles \cup { Missing, JsonFile(EmptyDict), JsonFile(None),
                   JsonFile(PyDict(<<Item(PyStr("api_key"), PyStr("K0")),
                                     Item(PyStr("api_key"), PyStr("K1"))>>)) }

UtilCalls ==
  { Call("_run", [cmd |-> cmd, timeout |-> t, proc |-> proc]) :
      cmd \in Cmds, t \in Timeouts, proc \in AllProcs }
    \cup { Call("scan_networks", proc) : proc \in ScanProcs }
    \cup { Call("connect_network", [ssid |-> "a", password |-> pw, proc |-> proc]) :
             pw \in Passwords, proc \in ConnectProcs }
    \cup { Call("get_connectivity", proc) : proc \in ConnectivityProcs }
    \cup { Call("get_ip_address", proc) : proc \in HostnameProcs }
    \cup { Call("check_key_status", [key |-> PyStr("K1"), http |-> http]) :
             http \in HttpOutcomes }

StoreCalls ==
  { Call("save_state", m) : m \in Mappings } \cup { Call("load_state", None) }

InitUtils ==
  /\ app = "running"
  /\ exception = "none"
  /\ screen_stack = <<NetworkScreen>>
  /\ networks = <<>>
  /\ selected_ssid = None
  /\ network_result = None
  /\ connect_cmd = <<>>
  /\ checks = <<>>
  /\ exit_result = None
  /\ presses = 0
  /\ \/ call \in UtilCalls /\ state_file = Missing
     \/ call \in StoreCalls /\ state_file \in UtilFiles

Pending(fn) == call.fn = fn /\ ~call.done

Returns(result) ==
  /\ call' = Made(call, result)
  /\ UNCHANGED <<app, exception, screen_stack, networks, selected_ssid,
                 network_result, state_file, connect_cmd, checks, exit_result,
                 presses>>

Call_run ==
  /\ Pending("_run")
  /\ Returns(_run(call.arg.cmd, call.arg.timeout, call.arg.proc))

CallScanNetworks ==
  /\ Pending("scan_networks")
  /\ Returns(scan_networks(call.arg).call)

CallConnectNetwork ==
  /\ Pending("connect_network")
  /\ Returns(connect_network(call.arg.ssid, call.arg.password, call.arg.proc))

CallGetConnectivity ==
  /\ Pending("get_connectivity")
  /\ Returns(get_connectivity(call.arg))

CallGetIpAddress ==
  /\ Pending("get_ip_address")
  /\ Returns(get_ip_address(call.arg))

CallCheckKeyStatus ==
  /\ Pending("check_key_status")
  /\ Returns(check_key_status(call.arg.key, call.arg.http))

CallLoadState ==
  /\ Pending("load_state")
  /\ Returns(load_state(state_file))

CallSaveState ==
  /\ Pending("save_state")
  /\ state_file' = save_state(call.arg)
  /\ call' = Made(call, None)
  /\ UNCHANGED <<app, exception, screen_stack, networks, selected_ssid,
                 network_result, connect_cmd, checks, exit_result, presses>>

\* After a call of the state store ended: load_state(), or save_state of
\* what load_state() returned.
ThenLoadState ==
  /\ call.fn \in {"save_state", "load_state"}
  /\ call.done
  /\ call' = [Call("load_state", None) EXCEPT !.before = Earlier(call)]
  /\ UNCHANGED <<app, exception, screen_stack, networks, selected_ssid,
                 network_result, state_file, connect_cmd, checks, exit_result,
                 presses>>

ThenSaveLoaded ==
  /\ call.fn = "load_state"
  /\ call.done
  /\ call' = [Call("save_state", call.result) EXCEPT !.before = Earlier(call)]
  /\ UNCHANGED <<app, exception, screen_stack, networks, selected_ssid,
                 network_result, state_file, connect_cmd, checks, exit_result,
                 presses>>

NextUtils ==
  \/ Call_run
  \/ CallScanNetworks
  \/ CallConnectNetwork
  \/ CallGetConnectivity
  \/ CallGetIpAddress
  \/ CallCheckKeyStatus
  \/ CallLoadState
  \/ CallSaveState
  \/ ThenLoadState
  \/ ThenSaveLoaded

SpecUtils == InitUtils /\ [][NextUtils]_vars

---------------------------------------------------------------------------
(* Claims *)

Connected == PyStr("connected")
Names(stack) == [i \in 1..Len(stack) |-> stack[i].name]
Pushed(name) ==
  /\ Len(screen_stack') = Len(screen_stack) + 1
  /\ screen_stack'[Len(screen_stack')].name = name

\* handle_done of the network screen ends in this step: it hands
\* network_result' to after_network.
AfterNetworkStep ==
  \E i \in 1..Top :
    /\ screen_stack[i].name = "Network"
    /\ screen_stack[i].running.msg = "done"
    /\ screen_stack'[i].running = Idle

C2_NoFailureIsFatal == app # "crashed"

\* C3: the steps entered, in order, are Network, then Activation at most
\* once, then Summary at most once, and nothing after Summary.
C3_LinearFlow ==
  Names(screen_stack) \in
    { <<"Network">>, <<"Network", "Activation">>, <<"Network", "Summary">>,
      <<"Network", "Activation", "Summary">> }

InScan(ssid) == \E n \in 1..Len(networks) : networks[n].ssid = ssid
HiddenPath(cmd) == \E k \in 1..Len(cmd) : cmd[k] = "hidden"

\* C4: a connect issued for an SSID that the last scan result does not hold
\* is made with the hidden flag.
C4_HiddenFallback ==
  [][ (connect_cmd' # connect_cmd /\ ~InScan(connect_cmd'[6]))
        => HiddenPath(connect_cmd') ]_vars

---------------------------------------------------------------------------
(* Claims about the utilities *)

ScanMade == call.fn = "scan_networks" /\ call.done
\* The text scan_networks parses.
ScanOut == _run(ScanCmd, 10, call.arg).out

\* A line SSID:SIGNAL with a name and a number.
WellFormed(line) == Len(line) = 2 /\ line[1] # "" /\ line[2] \in IntLiterals

\* The order of the names of this model.
NameRank(ssid) == CASE ssid = "B" -> 1 [] ssid = "a" -> 2 [] ssid = "c" -> 3
Before(m, n) ==
  \/ m.signal > n.signal
  \/ m.signal = n.signal /\ NameRank(m.ssid) <= NameRank(n.ssid)

\* C5: the list scan returns holds an SSID at most once and is ordered by
\* signal descending, then name ascending; N well-formed lines of distinct
\* SSIDs give N records.
C5_ScanDedupSorted ==
  (ScanMade /\ ~call.result.raised) =>
    LET nets == call.result.value
        lines == ScanOut
    IN /\ \A i, j \in 1..Len(nets) : i < j =>
            /\ nets[i].ssid # nets[j].ssid
            /\ Before(nets[i], nets[j])
       /\ ( /\ \A i \in 1..Len(lines) : WellFormed(lines[i])
            /\ \A i, j \in 1..Len(lines) : i # j => lines[i][1] # lines[j][1] )
           => Len(nets) = Len(lines)

\* C6: scan returns, with a record for every well-formed line and none for
\* a malformed one.
C6_ScanSkipsMalformed ==
  ScanMade =>
    /\ ~call.result.raised
    /\ { call.result.value[i] : i \in 1..Len(call.result.value) }
         = { [ssid |-> ScanOut[i][1], signal |-> int(ScanOut[i][2])] :
               i \in { k \in 1..Len(ScanOut) : WellFormed(ScanOut[k]) } }

RunMade == call.fn = "_run" /\ call.done
TimedOut == call.arg.proc.duration > call.arg.timeout

\* C7: a command that does not end within the timeout is killed, and _run
\* returns a non-zero exit code, an empty stdout and the timeout message.
C7_TimeoutIsFailureTuple ==
  (RunMade /\ TimedOut) =>
    /\ call.result.killed
    /\ call.result.rc # 0
    /\ call.result.out = <<>>
    /\ call.result.err = Str("Timeout")

\* A command of 20 s under the timeout of 10 s has been run.
C7_Witness ==
  /\ RunMade
  /\ call.arg.proc.duration = 20
  /\ call.arg.timeout = 10
  /\ call.result.rc = 1

LoadMade == call.fn = "load_state" /\ call.done
\* load_state() was called right after save_state(m), m a mapping.
LoadAfterSave ==
  /\ LoadMade
  /\ call.before # <<>>
  /\ call.before[1].fn = "save_state"
  /\ IsDict(call.before[1].arg)
\* save_state was called with what load_state() had just returned.
SaveOfLoaded ==
  /\ call.fn = "save_state"
  /\ call.done
  /\ call.before # <<>>
  /\ call.before[1].fn = "load_state"

\* C8 as claimed: load_state() after save_state(m) returns a mapping equal
\* to m, for every mapping m that json can write; and saving what
\* load_state() returned leaves the stored mapping as it was.
C8_RoundTripAnyMapping ==
  /\ LoadAfterSave => PyEq(call.result, call.before[1].arg)
  /\ SaveOfLoaded => PyEq(load_state(state_file), call.before[1].result)

\* What JSON holds as it is: str keys, and no tuple among the values.
JsonNative(m) == \A it \in Items(m) : it.k.t = "str" /\ it.v.t # "tuple"

\* C8 (amended): load_state() after save_state(m) returns a mapping equal to
\* m for every mapping m whose keys are strings and whose values are JSON
\* values; and saving what load_state() returned leaves the stored mapping
\* as it was.
C8_RoundTripJsonNative ==
  /\ (LoadAfterSave /\ JsonNative(call.before[1].arg))
       => PyEq(call.result, call.before[1].arg)
  /\ SaveOfLoaded => PyEq(load_state(state_file), call.before[1].result)

\* A mapping of two items with str keys has been saved and loaded again.
C8_Witness ==
  /\ LoadAfterSave
  /\ JsonNative(call.before[1].arg)
  /\ Len(call.before[1].arg.v) = 2
  /\ Len(call.result.v) = 2

\* The file holds a JSON object.
HoldsMapping(file) == file.exists /\ file.json /\ IsDict(file.doc)

\* C9: load_state returns a mapping: the empty one when the file is missing
\* or holds no JSON mapping, the stored one otherwise.
C9_LoadReturnsMapping ==
  LoadMade =>
    /\ IsDict(call.result)
    /\ ~HoldsMapping(state_file) => call.result = EmptyDict
    /\ HoldsMapping(state_file) => PyEq(call.result, loads(state_file.doc))

CheckMade == call.fn = "check_key_status" /\ call.done

\* The response has status 200 and a JSON body {"active": true}.
Is200Active(http) ==
  /\ http.kind = "response"
  /\ http.status = 200
  /\ http.body.json
  /\ IsDict(http.body.doc)
  /\ get(http.body.doc, PyStr("active")) = PyBool(TRUE)

\* C10: check_key_status returns success exactly on a 200 whose JSON body
\* has active = true; on anything else, an exception of the request
\* included, it returns failure with a message.
C10_CheckKeyStatus ==
  CheckMade =>
    /\ call.result.ok <=> Is200Active(call.arg.http)
    /\ call.result.msg # ""

\* A key has been checked and found active.
C10_Witness == CheckMade /\ call.result.ok /\ Is200Active(call.arg.http)

ConnectivityMade == call.fn = "get_connectivity" /\ call.done
ReportsFull ==
  /\ call.arg.duration <= 10
  /\ call.arg.returncode = 0
  /\ call.arg.stdout = Str("full")

\* C11: get_connectivity returns true exactly when the status command ends
\* in time with exit code 0 and the state on its standard output is "full".
C11_ConnectivityFromStdout ==
  ConnectivityMade => (call.result.value <=> ReportsFull)

\* The state as load_state() reads it from a file: its api_key, and its
\* other fields.
StoredKey(file) ==
  IF IsDict(load_state(file)) THEN get(load_state(file), ApiKey) ELSE None
OtherFields(file) ==
  IF IsDict(load_state(file))
  THEN { it \in Items(load_state(file)) : it.k # ApiKey }
  ELSE {}
ValidateEnds == \E i \in 1..Top : ValidateEnd(i)
ValidateEmpties == \E i \in 1..Top : ValidateEmpty(i)
CheckedOk == checks' # <<>> /\ checks'[1].ok

\* C12: the stored api_key changes only in a validate_key whose check of
\* that very key succeeded; a validate_key with an empty input or a failed
\* check leaves the state file as it is, and a successful one keeps every
\* field other than api_key.
C12_ValidateFrame ==
  [][ /\ StoredKey(state_file') # StoredKey(state_file) =>
           /\ ValidateEnds
           /\ CheckedOk
           /\ StoredKey(state_file') = checks'[1].key
      /\ ValidateEmpties => state_file' = state_file
      /\ (ValidateEnds /\ ~CheckedOk) => state_file' = state_file
      /\ ValidateEnds => OtherFields(state_file') = OtherFields(state_file)
    ]_vars

\* A key typed in has been validated and stored, next to the activation
\* code the state held before.
C12_Witness ==
  /\ checks # <<>>
  /\ checks[1].ok
  /\ checks[1].key = PyStr("K1")
  /\ StoredKey(state_file) = PyStr("K1")
  /\ \E it \in OtherFields(state_file) : it.k = PyStr("activation_code")

ReportsActivated ==
  /\ Top' = Top + 1
  /\ Truthy(get(screen_stack'[Top'].result, PyStr("activated")))
  /\ screen_stack'[Top'].status = "Device activated and ready!"

\* C13: done reports activated = true (and the summary shows the device as
\* activated) only if check_key_status has returned success for the api_key
\* the state holds.
C13_ActivatedOnlyIfChecked ==
  [][ \A i \in 1..Top :
        (ActivationDone(i) /\ ReportsActivated) =>
          StoredKey(state_file) \in Passed ]_vars
====
